---------------------------- MODULE Spec2Model ----------------------------
(***************************************************************************)
(* Market-data feeds, price table and arbitrage detection of the           *)
(* repository's three long-running scripts:                                *)
(*                                                                         *)
(*   "speed"  src/Speedtest/arbitrage_speed_monitor.py  ArbitrageSpeedMonitor *)
(*   "free"   src/free_arbitrage_monitor.py             FreeArbitrageMonitor  *)
(*   "slow"   src/Slow/binance_streamer-usingWebSockets.py  stream_price      *)
(*                                                                         *)
(* One behaviour is one run of one script (prog, chosen in Init).  Every   *)
(* script is a single asyncio event loop: a handler runs from one await to *)
(* the next without interleaving, so each action below is one such         *)
(* stretch of code.                                                        *)
(*                                                                         *)
(* Prices are exact integers in units of 0.1 USD (50000.50 USD = 500005).  *)
(* A percentage is kept as the exact fraction [num, den] whose value in    *)
(* percent is 100 * num / den; comparisons cross-multiply.                 *)
(* time.perf_counter() is the variable now, in whole seconds; a handler    *)
(* takes no time of its own.                                               *)
(*                                                                         *)
(* The benchmark scripts have behaviours of their own, with their state in *)
(* the variable bench:                                                     *)
(*                                                                         *)
(*   "tester"      src/Speedtest/speed_comparison.py  SpeedTester          *)
(*   "ultimate"    src/Speedtest/ultimate_exchange_speed_test.py           *)
(*   "comparison"  src/ultra_fast_streamer.py  stream_comparison           *)
(*   "mexc"        src/mexc_kucoin_speed_test.py  test_mexc_ultra_v2       *)
(*                                                                         *)
(* Specifications:                                                         *)
(*   Spec         the whole program from construction on                   *)
(*   SpecBook     the price table and the detector under connected feeds   *)
(*   SpecConn     the connection handling of the feed loops                *)
(*   SpecScan     a detection pass as two steps, its start and its end     *)
(*   SpecHistory  the free monitor with its opportunity history nearly full *)
(*   SpecCount    the bookkeeping of the speed monitor                     *)
(*   SpecBench    run_all_tests of the two testers; SpecBenchLive adds     *)
(*                that the script and the clock go on                      *)
(*   SpecCompare  the two parallel streams of stream_comparison            *)
(*   SpecMexc     the endpoint probes of test_mexc_ultra_v2                *)
(***************************************************************************)
EXTENDS Integers, Sequences, FiniteSets, TLC

VARIABLES
    prog,                    \* the script that runs
    now,                     \* time.perf_counter()
    pc,                      \* per feed task: its position in the feed loop
    prices,                  \* self.prices: exchange -> [bid, ask, time]
    order,                   \* insertion order of the keys of self.prices
    message_counts,          \* ArbitrageSpeedMonitor.message_counts
    last_update,             \* ArbitrageSpeedMonitor.last_update
    arbitrage_opportunities, \* FreeArbitrageMonitor.arbitrage_opportunities
    total_opportunities,     \* FreeArbitrageMonitor.total_opportunities
    message_count,           \* the slow streamer's global message_count,
                             \* UltraFastBinanceStreamer.message_count
    res,                     \* what the last step did: pass run, raised, emitted
    last_delay,              \* per feed task: its latest asyncio.sleep delay, 0 = none yet
    failures,                \* per feed task: failed attempts since it last streamed
    scan,                    \* the detection pass in progress (the earliest
                             \* one not yet at its end), if any
    bench                    \* the state of a benchmark script (SpeedTester,
                             \* UltimateExchangeSpeedTester, the comparison of
                             \* UltraFastBinanceStreamer, test_mexc_ultra_v2)

vars == <<prog, now, pc, prices, order, message_counts, last_update,
          arbitrage_opportunities, total_opportunities, message_count, res,
          last_delay, failures, scan, bench>>

----------------------------------------------------------------------------
(* Bounds of the model *)

MaxEarly == 2        \* perf_counter() reads 1..MaxEarly, and those plus 5
MaxCount == 2        \* cap on every message counter
MaxOpps == 2         \* cap on total_opportunities
MaxFails == 2        \* cap on the failed connection attempts counted at a time

----------------------------------------------------------------------------
(* Program constants *)

SPEED_MAX_AGE == 5   \* "current_time - price1['time'] > 5"
FREE_MAX_AGE == 1    \* "(current_time - data['time']) < 1.0"
MIN_PCT_NUM == 1     \* the threshold 0.01 (percent) = MIN_PCT_NUM / MIN_PCT_DEN
MIN_PCT_DEN == 100
DEQUE_MAXLEN == 100  \* deque(maxlen=100)
RETRY_DELAY == 1     \* "await asyncio.sleep(1)"

TestDuration == 2
MaxMsgs == 1
MaxWait == 3

CompareDuration == 2
MaxStreamMsgs == 3

\* the probe of test_mexc_ultra_v2, in seconds and messages
MEXC_PROBE_SECONDS == 5
MEXC_PROBE_TIMEOUT == 1
MEXC_PROBE_VALID == 3
\* receive timeouts of the testers, in half seconds (1.0 s and 0.5 s)
TESTER_RECV_TIMEOUT == 2
ULTRA_RECV_TIMEOUT == 1
NoTimeout == 0

Programs == {"speed", "free", "slow"}

SpeedFeeds == <<"Binance", "Bybit", "OKX">>
FreeFeeds == <<"binance", "coinbase", "bybit">>
SlowFeeds == <<"ticker">>

Range(s) == {s[i] : i \in 1..Len(s)}

FeedSeq(p) ==
    CASE p = "speed" -> SpeedFeeds
      [] p = "free" -> FreeFeeds
      [] OTHER -> SlowFeeds

Feeds(p) == Range(FeedSeq(p))

AllFeeds == Feeds("speed") \cup Feeds("free") \cup Feeds("slow")

\* The feeds that send a subscribe message after connecting.
Subscribes(f) == f \in {"Bybit", "OKX", "coinbase", "bybit"}

----------------------------------------------------------------------------
(* Messages a venue can send.  kind says how the feed's decoding ends:     *)
(*   data      a market-data message with numeric bid and ask              *)
(*   nondata   well-formed JSON that is no market-data message             *)
(*   badjson   not JSON                                                    *)
(*   badfield  a market-data message with a missing or non-numeric price   *)

Quotes == { [bid |-> 500000, ask |-> 500005],
            [bid |-> 500100, ask |-> 500108],
            [bid |-> 500050, ask |-> 500055],
            [bid |-> 500100, ask |-> 500000],    \* a crossed book
            [bid |-> 500000, ask |-> 0] }

NoQuote == [bid |-> 0, ask |-> 0]

Msgs == { [kind |-> "data", bid |-> q.bid, ask |-> q.ask] : q \in Quotes }
        \cup { [kind |-> k, bid |-> 0, ask |-> 0] :
                   k \in {"nondata", "badjson", "badfield"} }

----------------------------------------------------------------------------
(* Percentages as exact fractions *)

\* (profit / ask) * 100, defined only for ask # 0 (the caller raises at 0)
Pct(profit, ask) == [num |-> profit, den |-> ask]

\* p > MIN_PCT_NUM / MIN_PCT_DEN percent, for p.den > 0
PctAboveMin(p) == p.num * 100 * MIN_PCT_DEN > MIN_PCT_NUM * p.den

\* p > q, for positive denominators
PctGt(p, q) == p.num * q.den > q.num * p.den

PctEq(p, q) == p.num * q.den = q.num * p.den

NoRes == [pass |-> FALSE, raised |-> FALSE, emitted |-> <<>>]

----------------------------------------------------------------------------
(* ArbitrageSpeedMonitor.check_arbitrage *)

\* Mutant: the buy price taken from the buy exchange's bid.
Opportunity_buy_at_bid(buy, sell, P) ==
    [buy_exchange |-> buy, sell_exchange |-> sell,
     buy_price |-> P[buy].bid, sell_price |-> P[sell].bid,
     profit_usd |-> P[sell].bid - P[buy].bid,
     profit_pct |-> Pct(P[sell].bid - P[buy].bid, P[buy].bid)]

Opportunity(buy, sell, P) ==
    [buy_exchange |-> buy, sell_exchange |-> sell,
     buy_price |-> P[buy].ask, sell_price |-> P[sell].bid,
     profit_usd |-> P[sell].bid - P[buy].ask,
     profit_pct |-> Pct(P[sell].bid - P[buy].ask, P[buy].ask)]

\* for i, ex1 in enumerate(exchanges): for ex2 in exchanges[i+1:]
RECURSIVE Speed_pairs(_, _)
Speed_pairs(exchanges, i) ==
    IF i >= Len(exchanges) THEN <<>>
    ELSE [k \in 1..(Len(exchanges) - i) |-> <<exchanges[i], exchanges[i + k]>>]
         \o Speed_pairs(exchanges, i + 1)

\* the pair is not skipped by the staleness test
Speed_fresh(price1, price2, current_time) ==
    ~ (current_time - price1.time > SPEED_MAX_AGE
       \/ current_time - price2.time > SPEED_MAX_AGE)

\* profit1_pct / profit2_pct divide by the two asks
Speed_pair_raises(price1, price2) == price1.ask = 0 \/ price2.ask = 0

\* the entries one fresh pair appends to opportunities
Speed_pair_opps(ex1, ex2, P) ==
    (IF PctAboveMin(Opportunity(ex1, ex2, P).profit_pct)
        THEN <<Opportunity(ex1, ex2, P)>> ELSE <<>>)
    \o (IF PctAboveMin(Opportunity(ex2, ex1, P).profit_pct)
        THEN <<Opportunity(ex2, ex1, P)>> ELSE <<>>)

\* the pairs the scan reaches and does not skip
Speed_scanned(P, exchanges, current_time) ==
    SelectSeq(Speed_pairs(exchanges, 1),
              LAMBDA pr : Speed_fresh(P[pr[1]], P[pr[2]], current_time))

RECURSIVE Speed_collect(_, _, _)
Speed_collect(pairs, k, P) ==
    IF k > Len(pairs) THEN <<>>
    ELSE Speed_pair_opps(pairs[k][1], pairs[k][2], P)
         \o Speed_collect(pairs, k + 1, P)

\* Mutant: the first entry found instead of the best one.
MaxByPct_first(opportunities) == opportunities[1]

\* max(opportunities, key=lambda x: x['profit_pct']): the first maximal entry
MaxByPct(opportunities) ==
    opportunities[CHOOSE i \in 1..Len(opportunities) :
        /\ \A j \in 1..Len(opportunities) :
               ~ PctGt(opportunities[j].profit_pct, opportunities[i].profit_pct)
        /\ \A j \in 1..(i - 1) :
               PctGt(opportunities[i].profit_pct, opportunities[j].profit_pct)]

\* Mutant: a scan over every exchange against every exchange, itself
\* included, with no early return.
Speed_check_arbitrage_selfpairs(P, exchanges, current_time) ==
    LET all == {<<exchanges[i], exchanges[j]>> : i, j \in 1..Len(exchanges)}
        found == {pr \in all :
                     /\ Speed_fresh(P[pr[1]], P[pr[2]], current_time)
                     /\ P[pr[1]].ask > 0
                     /\ PctAboveMin(Opportunity(pr[1], pr[2], P).profit_pct)}
    IN [pass |-> TRUE, raised |-> FALSE,
        emitted |-> IF found = {} THEN <<>>
                    ELSE LET pr == CHOOSE q \in found : TRUE
                         IN <<Opportunity(pr[1], pr[2], P)>>]

Speed_check_arbitrage(P, exchanges, current_time) ==
    IF Len(exchanges) < 2 THEN [pass |-> TRUE, raised |-> FALSE, emitted |-> <<>>]
    ELSE LET scanned == Speed_scanned(P, exchanges, current_time)
         IN IF \E k \in 1..Len(scanned) :
                   Speed_pair_raises(P[scanned[k][1]], P[scanned[k][2]])
            THEN [pass |-> TRUE, raised |-> TRUE, emitted |-> <<>>]
            ELSE LET opportunities == Speed_collect(scanned, 1, P)
                 IN [pass |-> TRUE, raised |-> FALSE,
                     emitted |-> IF opportunities = <<>> THEN <<>>
                                 ELSE <<MaxByPct(opportunities)>>]

----------------------------------------------------------------------------
(* FreeArbitrageMonitor.check_arbitrage *)

Free_active(P, exchanges, current_time) ==
    SelectSeq(exchanges,
              LAMBDA ex : P[ex].time > 0 /\ current_time - P[ex].time < FREE_MAX_AGE)

Free_best_bid(P, active) ==
    CHOOSE b \in {P[active[i]].bid : i \in 1..Len(active)} :
        \A i \in 1..Len(active) : P[active[i]].bid <= b

Free_best_ask(P, active) ==
    CHOOSE a \in {P[active[i]].ask : i \in 1..Len(active)} :
        \A i \in 1..Len(active) : P[active[i]].ask >= a

\* next(ex for ex in active_exchanges if ...): the first one in list order
Free_bid_exchange(P, active, best_bid) ==
    active[CHOOSE i \in 1..Len(active) :
               /\ P[active[i]].bid = best_bid
               /\ \A j \in 1..(i - 1) : P[active[j]].bid # best_bid]

Free_ask_exchange(P, active, best_ask) ==
    active[CHOOSE i \in 1..Len(active) :
               /\ P[active[i]].ask = best_ask
               /\ \A j \in 1..(i - 1) : P[active[j]].ask # best_ask]

\* Mutant: the test that the two exchanges differ is missing.
Free_distinct_missing(bid_exchange, ask_exchange) == TRUE

Free_distinct(bid_exchange, ask_exchange) == bid_exchange # ask_exchange

Free_check_arbitrage(P, exchanges, current_time) ==
    LET active == Free_active(P, exchanges, current_time)
        quiet == [pass |-> TRUE, raised |-> FALSE, emitted |-> <<>>]
    IN IF Len(active) < 2 THEN quiet
       ELSE LET best_bid == Free_best_bid(P, active)
                best_ask == Free_best_ask(P, active)
                bid_exchange == Free_bid_exchange(P, active, best_bid)
                ask_exchange == Free_ask_exchange(P, active, best_ask)
            IN IF best_bid > best_ask /\ Free_distinct(bid_exchange, ask_exchange)
               THEN IF best_ask = 0
                    THEN [pass |-> TRUE, raised |-> TRUE, emitted |-> <<>>]
                    ELSE IF PctAboveMin(Pct(best_bid - best_ask, best_ask))
                         THEN [pass |-> TRUE, raised |-> FALSE,
                               emitted |-> <<Opportunity(ask_exchange, bid_exchange, P)>>]
                         ELSE quiet
               ELSE quiet

\* Mutant: the history is a plain list.
DequeAppend_unbounded(d, x, maxlen) == Append(d, x)

\* deque(maxlen=...).append
DequeAppend(d, x, maxlen) ==
    IF Len(d) < maxlen THEN Append(d, x) ELSE Append(Tail(d), x)

----------------------------------------------------------------------------
(* State after construction: ArbitrageSpeedMonitor.__init__,               *)
(* FreeArbitrageMonitor.__init__, the slow streamer's module globals; every *)
(* feed task is created and about to connect.                              *)

None == "None"

\* no detection pass is between its first and its last statement
NoScan == [by |-> None, view |-> <<>>]

\* no benchmark script runs
NoBench == [phase |-> "none"]

Extend(f, x, v) == [y \in DOMAIN f \cup {x} |-> IF y = x THEN v ELSE f[y]]

FreeInitPrices == [f \in Feeds("free") |-> [bid |-> 0, ask |-> 0, time |-> 0]]

Init ==
    /\ prog \in Programs
    /\ now = 1
    /\ pc = [f \in Feeds(prog) |-> "connect"]
    /\ prices = IF prog = "free" THEN FreeInitPrices ELSE <<>>
    /\ order = IF prog = "free" THEN FreeFeeds ELSE <<>>
    /\ message_counts = <<>>
    /\ last_update = <<>>
    /\ arbitrage_opportunities = <<>>
    /\ total_opportunities = 0
    /\ message_count = 0
    /\ res = NoRes
    /\ last_delay = [f \in Feeds(prog) |-> 0]
    /\ failures = [f \in Feeds(prog) |-> 0]
    /\ scan = NoScan
    /\ bench = NoBench

----------------------------------------------------------------------------
(* The clock *)

\* The readings of perf_counter() a run passes through: two stretches of
\* consecutive seconds, a staleness window of the speed monitor apart.
ClockValues == (1..MaxEarly) \cup {SPEED_MAX_AGE + t : t \in 1..MaxEarly}

TickTo(T) ==
    /\ \E t \in T : t > now /\ now' = t
    /\ res' = NoRes
    /\ UNCHANGED <<prog, pc, prices, order, message_counts, last_update,
                   arbitrage_opportunities, total_opportunities, message_count,
                   last_delay, failures, scan, bench>>

----------------------------------------------------------------------------
(* Connection handling, common shape of every feed loop *)

book == <<prices, order, message_counts, last_update,
          arbitrage_opportunities, total_opportunities, message_count>>

\* Mutant: each delay one less than the one before.
Retry_delay_shrinking(previous) ==
    IF previous = 0 THEN RETRY_DELAY ELSE previous - 1

\* Mutant: each delay one more than the one before, up to RETRY_DELAY + 1.
Retry_delay_growing(previous) ==
    IF previous <= RETRY_DELAY THEN previous + 1 ELSE previous

\* the delay of the next sleep of a feed whose latest delay was previous:
\* always the literal of "await asyncio.sleep(1)"
Retry_delay(previous) == RETRY_DELAY

Goto(f, where) ==
    /\ pc' = [pc EXCEPT ![f] = where]
    /\ last_delay' = IF where = "sleep"
                     THEN [last_delay EXCEPT ![f] = Retry_delay(last_delay[f])]
                     ELSE last_delay
    /\ failures' = [failures EXCEPT ![f] =
                        IF where = "stream" THEN 0
                        ELSE IF pc[f] \in {"connect", "subscribe"}
                                /\ where \in {"sleep", "terminated"}
                             THEN failures[f] + 1
                             ELSE failures[f]]
    /\ res' = NoRes
    /\ UNCHANGED <<prog, now, scan, bench>>
    /\ UNCHANGED book

\* where a feed goes when websockets.connect or the subscribe send raises
AfterConnectError(p) == IF p = "slow" THEN "terminated" ELSE "sleep"

\* Mutant: after a close the loop sends the subscription again.
AfterCloseOK_resubscribe(p) == "subscribe"

\* where a feed goes when the server closes the connection normally
AfterCloseOK(p) == IF p = "slow" THEN "terminated" ELSE "connect"

\* where a feed goes when the connection breaks while streaming
AfterCloseError(p) ==
    CASE p = "speed" -> "sleep"
      [] p = "free" -> "connect"
      [] OTHER -> "terminated"

\* Mutant: a message that is no market data ends the stream.
AfterNonData_reconnect(p) == "connect"

\* where a feed goes on a well-formed message that is no market data: the
\* monitors' handlers skip it, the slow streamer fails on the missing field
AfterNonData(p) == IF p = "slow" THEN "terminated" ELSE "stream"

\* where a feed goes when handling one message raises
AfterHandlerError(p, kind) ==
    CASE p = "speed" -> "stream"
      [] p = "free" -> "connect"
      [] OTHER -> IF kind = "badjson" THEN "stream" ELSE "terminated"

RECURSIVE SumOver(_, _)
SumOver(count, S) ==
    IF S = {} THEN 0
    ELSE LET x == CHOOSE y \in S : TRUE
         IN count[x] + SumOver(count, S \ {x})

\* failed attempts of all feeds since each last streamed
TotalFailures == SumOver(failures, DOMAIN failures)

Connect(f) ==
    /\ pc[f] = "connect"
    /\ Goto(f, IF Subscribes(f) THEN "subscribe" ELSE "stream")

ConnectFail(f) ==
    /\ pc[f] = "connect"
    /\ TotalFailures < MaxFails
    /\ Goto(f, AfterConnectError(prog))

Subscribe(f) ==
    /\ pc[f] = "subscribe"
    /\ Goto(f, "stream")

SubscribeFail(f) ==
    /\ pc[f] = "subscribe"
    /\ TotalFailures < MaxFails
    /\ Goto(f, AfterConnectError(prog))

CloseOK(f) ==
    /\ pc[f] = "stream"
    /\ Goto(f, AfterCloseOK(prog))

CloseError(f) ==
    /\ pc[f] = "stream"
    /\ Goto(f, AfterCloseError(prog))

\* asyncio.sleep(1) returns
SleepDone(f) ==
    /\ pc[f] = "sleep"
    /\ Goto(f, "connect")

\* asyncio.wait_for(ws.recv(), timeout=1.0) times out: continue
RecvTimeout(f) ==
    /\ prog = "free"
    /\ pc[f] = "stream"
    /\ Goto(f, "stream")

----------------------------------------------------------------------------
(* ArbitrageSpeedMonitor: update_price and the message handlers *)

\* Mutant: a handler's quote overwrites every entry of the table.
Store_shared(P, exchange, quote) ==
    [y \in DOMAIN P \cup {exchange} |-> quote]

\* self.prices[exchange] = {...}: the one assignment to the price table
Store(P, exchange, quote) == Extend(P, exchange, quote)

\* Mutant: the message is counted after the pass, and so only when the pass
\* returns.
update_price_count_last(exchange, bid, ask, timestamp) ==
    LET ts == IF timestamp = None THEN now ELSE timestamp
        P == Store(prices, exchange, [bid |-> bid, ask |-> ask, time |-> ts])
        exchanges == IF exchange \in DOMAIN prices THEN order
                     ELSE Append(order, exchange)
        count == IF exchange \in DOMAIN message_counts
                 THEN message_counts[exchange] ELSE 0
        r == Speed_check_arbitrage(P, exchanges, now)
    IN /\ prices' = P
       /\ order' = exchanges
       /\ message_counts' = IF r.raised THEN message_counts
                            ELSE Extend(message_counts, exchange, count + 1)
       /\ last_update' = Extend(last_update, exchange, ts)
       /\ res' = r

update_price(exchange, bid, ask, timestamp) ==
    LET ts == IF timestamp = None THEN now ELSE timestamp
        P == Store(prices, exchange, [bid |-> bid, ask |-> ask, time |-> ts])
        exchanges == IF exchange \in DOMAIN prices THEN order
                     ELSE Append(order, exchange)
        count == IF exchange \in DOMAIN message_counts
                 THEN message_counts[exchange] ELSE 0
    IN /\ prices' = P
       /\ order' = exchanges
       /\ message_counts' = Extend(message_counts, exchange, count + 1)
       /\ last_update' = Extend(last_update, exchange, ts)
       /\ res' = Speed_check_arbitrage(P, exchanges, now)

SpeedRecv(f, m) ==
    /\ prog = "speed"
    /\ pc[f] = "stream"
    /\ IF m.kind = "data"
       THEN /\ f \in DOMAIN message_counts => message_counts[f] < MaxCount
            /\ update_price(f, m.bid, m.ask, None)
            /\ pc' = pc
       ELSE /\ pc' = [pc EXCEPT ![f] =
                         IF m.kind = "nondata" THEN AfterNonData(prog)
                         ELSE AfterHandlerError(prog, m.kind)]
            /\ res' = NoRes
            /\ UNCHANGED <<prices, order, message_counts, last_update>>
    /\ UNCHANGED <<prog, now, arbitrage_opportunities, total_opportunities,
                   message_count, last_delay, failures, scan, bench>>

----------------------------------------------------------------------------
(* FreeArbitrageMonitor: the message handlers *)

\* one message of a feed of the free monitor; cap bounds the opportunities
\* recorded in a behaviour
FreeHandle(f, m, cap) ==
    /\ prog = "free"
    /\ pc[f] = "stream"
    /\ IF m.kind = "data"
       THEN LET P == Store(prices, f,
                            [bid |-> m.bid, ask |-> m.ask, time |-> now])
                r == Free_check_arbitrage(P, order, now)
            IN /\ total_opportunities < cap
               /\ prices' = P
               /\ res' = r
               /\ total_opportunities' = total_opportunities + Len(r.emitted)
               /\ arbitrage_opportunities' =
                      IF r.emitted = <<>> THEN arbitrage_opportunities
                      ELSE DequeAppend(arbitrage_opportunities, r.emitted[1],
                                       DEQUE_MAXLEN)
               /\ pc' = IF r.raised
                        THEN [pc EXCEPT ![f] = AfterHandlerError(prog, m.kind)]
                        ELSE pc
       ELSE /\ pc' = [pc EXCEPT ![f] =
                         IF m.kind = "nondata" THEN AfterNonData(prog)
                         ELSE AfterHandlerError(prog, m.kind)]
            /\ res' = NoRes
            /\ UNCHANGED <<prices, arbitrage_opportunities, total_opportunities>>
    /\ UNCHANGED <<prog, now, order, message_counts, last_update, message_count,
                   last_delay, failures, scan, bench>>

FreeRecv(f, m) == FreeHandle(f, m, MaxOpps)

----------------------------------------------------------------------------
(* The slow streamer: stream_price *)

SlowRecv(f, m) ==
    /\ prog = "slow"
    /\ pc[f] = "stream"
    /\ IF m.kind = "data"
       THEN /\ message_count < MaxCount
            /\ message_count' = message_count + 1
            /\ pc' = pc
       ELSE /\ pc' = [pc EXCEPT ![f] =
                         IF m.kind = "nondata" THEN AfterNonData(prog)
                         ELSE AfterHandlerError(prog, m.kind)]
            /\ message_count' = message_count
    /\ res' = NoRes
    /\ UNCHANGED <<prog, now, prices, order, message_counts, last_update,
                   arbitrage_opportunities, total_opportunities, last_delay, failures, scan, bench>>

----------------------------------------------------------------------------

Recv(f, m) == SpeedRecv(f, m) \/ FreeRecv(f, m) \/ SlowRecv(f, m)

\* In the whole program the venues send the messages of FeedMsgs and the
\* clock stays within the first stretch of readings.
FeedQuotes == {q \in Quotes : q.ask = 500108 \/ q.ask = 0}

FeedMsgs == {m \in Msgs : m.kind = "data" => [bid |-> m.bid, ask |-> m.ask] \in FeedQuotes}

Tick == TickTo(1..MaxEarly)

Next ==
    \/ Tick
    \/ \E f \in Feeds(prog) :
          \/ Connect(f)
          \/ ConnectFail(f)
          \/ Subscribe(f)
          \/ SubscribeFail(f)
          \/ CloseOK(f)
          \/ CloseError(f)
          \/ SleepDone(f)
          \/ RecvTimeout(f)
          \/ \E m \in FeedMsgs : Recv(f, m)

Spec == Init /\ [][Next]_vars

----------------------------------------------------------------------------
(* The price table and the detector under connected feeds: every feed has  *)
(* connected (and subscribed) and no message has arrived yet; connections  *)
(* are not lost, and a feed whose handler breaks out of its loop has       *)
(* reconnected before the next message is handled.  The venues send every  *)
(* quote of Quotes and the clock passes through all of ClockValues.        *)

InitStreaming ==
    /\ prog \in {"speed", "free"}
    /\ now = 1
    /\ pc = [f \in Feeds(prog) |-> "stream"]
    /\ prices = IF prog = "free" THEN FreeInitPrices ELSE <<>>
    /\ order = IF prog = "free" THEN FreeFeeds ELSE <<>>
    /\ message_counts = <<>>
    /\ last_update = <<>>
    /\ arbitrage_opportunities = <<>>
    /\ total_opportunities = 0
    /\ message_count = 0
    /\ res = NoRes
    /\ last_delay = [f \in Feeds(prog) |-> 0]
    /\ failures = [f \in Feeds(prog) |-> 0]
    /\ scan = NoScan
    /\ bench = NoBench

BookMsgs == {m \in Msgs : m.kind \in {"data", "nondata"}}

AllStreaming == \A g \in Feeds(prog) : pc[g] = "stream"

BookTick == TickTo(ClockValues)

BookNext ==
    \/ BookTick
    \/ \E f \in Feeds(prog) :
          \/ Connect(f)
          \/ Subscribe(f)
          \/ \E m \in BookMsgs : AllStreaming /\ SpeedRecv(f, m)
          \/ \E m \in BookMsgs : AllStreaming /\ FreeRecv(f, m)

SpecBook == InitStreaming /\ [][BookNext]_vars


----------------------------------------------------------------------------
(* The connection handling of the feed loops on its own: every failure and  *)
(* every kind of message, one quote, the clock standing still.              *)

ConnMsgs == {m \in Msgs : m.kind = "data" => (m.bid = 500100 /\ m.ask = 500108)}

ConnNext ==
    \E f \in Feeds(prog) :
        \/ Connect(f)
        \/ ConnectFail(f)
        \/ Subscribe(f)
        \/ SubscribeFail(f)
        \/ CloseOK(f)
        \/ CloseError(f)
        \/ SleepDone(f)
        \/ RecvTimeout(f)
        \/ \E m \in ConnMsgs : Recv(f, m)

SpecConn == Init /\ [][ConnNext]_vars

----------------------------------------------------------------------------
(* The opportunity history at its capacity.  SpecHistory starts the free    *)
(* monitor after DEQUE_MAXLEN - 1 recorded opportunities, all of them "buy  *)
(* on binance, sell on coinbase", and lets the feeds deliver further quotes *)
(* until MaxOpps more opportunities are recorded.                           *)

HistoryStart == DEQUE_MAXLEN - 1

HistoryPrices ==
    [f \in Feeds("free") |->
        IF f = "binance" THEN [bid |-> 500000, ask |-> 500005, time |-> 1]
        ELSE IF f = "coinbase" THEN [bid |-> 500100, ask |-> 500108, time |-> 1]
        ELSE [bid |-> 0, ask |-> 0, time |-> 0]]

InitHistory ==
    /\ prog = "free"
    /\ now = 1
    /\ pc = [f \in Feeds(prog) |-> "stream"]
    /\ prices = HistoryPrices
    /\ order = FreeFeeds
    /\ message_counts = <<>>
    /\ last_update = <<>>
    /\ arbitrage_opportunities =
           [i \in 1..HistoryStart |-> Opportunity("binance", "coinbase", HistoryPrices)]
    /\ total_opportunities = HistoryStart
    /\ message_count = 0
    /\ res = Free_check_arbitrage(HistoryPrices, FreeFeeds, 1)
    /\ last_delay = [f \in Feeds(prog) |-> 0]
    /\ failures = [f \in Feeds(prog) |-> 0]
    /\ scan = NoScan
    /\ bench = NoBench

HistoryQuotes == {q \in Quotes : q.ask > 0}

HistoryMsgs == {m \in Msgs : m.kind = "data" /\ [bid |-> m.bid, ask |-> m.ask] \in HistoryQuotes}

HistoryRecv(f, m) == FreeHandle(f, m, HistoryStart + MaxOpps + 1)

HistoryNext ==
    \E f \in Feeds(prog) : \E m \in HistoryMsgs : HistoryRecv(f, m)

SpecHistory == InitHistory /\ [][HistoryNext]_vars

----------------------------------------------------------------------------
(* The bookkeeping of ArbitrageSpeedMonitor: SpecCount runs the three feeds *)
(* of the speed monitor, streaming, on quotes that include a zero ask.      *)

InitCount == InitStreaming /\ prog = "speed"

CountMsgs == {m \in FeedMsgs : m.kind = "data"}

CountNext ==
    \/ Tick
    \/ \E f \in Feeds(prog) : \E m \in CountMsgs : SpeedRecv(f, m)

SpecCount == InitCount /\ [][CountNext]_vars

----------------------------------------------------------------------------
(* A detection pass in two steps: the handler stores the quote and enters   *)
(* check_arbitrage (Ingest), check_arbitrage runs to its end (PassEnd).     *)
(* update_price and both check_arbitrage are plain functions without an     *)
(* await, and every task runs on the one asyncio event loop, which runs a   *)
(* task until its next await: no other step is taken in between.            *)

\* Mutant: tasks are scheduled inside a pass as well.
EventLoopFree_preemptive == TRUE

\* the event loop is not inside a handler
EventLoopFree == scan.by = None

\* Mutant: the pass resets the entries it finds out of date.
Pass_table_pruning(P, current_time) ==
    [x \in DOMAIN P |->
        IF P[x].time < current_time THEN [bid |-> 0, ask |-> 0, time |-> 0]
        ELSE P[x]]

\* self.prices after a pass: check_arbitrage assigns to no entry
Pass_table(P, current_time) == P

SpeedIngest(f, m) ==
    /\ prog = "speed"
    /\ pc[f] = "stream"
    /\ EventLoopFree
    /\ m.kind = "data"
    /\ f \in DOMAIN message_counts => message_counts[f] < MaxCount
    /\ prices' = Store(prices, f, [bid |-> m.bid, ask |-> m.ask, time |-> now])
    /\ order' = IF f \in DOMAIN prices THEN order ELSE Append(order, f)
    /\ message_counts' =
           Extend(message_counts, f,
                  IF f \in DOMAIN message_counts THEN message_counts[f] + 1 ELSE 1)
    /\ last_update' = Extend(last_update, f, now)
    /\ scan' = IF scan.by = None THEN [by |-> f, view |-> prices'] ELSE scan
    /\ res' = NoRes
    /\ UNCHANGED <<prog, now, pc, arbitrage_opportunities, total_opportunities,
                   message_count, last_delay, failures, bench>>

FreeIngest(f, m) ==
    /\ prog = "free"
    /\ pc[f] = "stream"
    /\ EventLoopFree
    /\ m.kind = "data"
    /\ total_opportunities < MaxOpps
    /\ prices' = Store(prices, f, [bid |-> m.bid, ask |-> m.ask, time |-> now])
    /\ scan' = IF scan.by = None THEN [by |-> f, view |-> prices'] ELSE scan
    /\ res' = NoRes
    /\ UNCHANGED <<prog, now, pc, order, message_counts, last_update,
                   arbitrage_opportunities, total_opportunities, message_count,
                   last_delay, failures, bench>>

Ingest(f, m) == SpeedIngest(f, m) \/ FreeIngest(f, m)

PassEnd(f) ==
    /\ scan.by = f
    /\ LET r == IF prog = "speed"
                THEN Speed_check_arbitrage(prices, order, now)
                ELSE Free_check_arbitrage(prices, order, now)
           recorded == IF prog = "free" THEN r.emitted ELSE <<>>
       IN /\ res' = r
          /\ total_opportunities' = total_opportunities + Len(recorded)
          /\ arbitrage_opportunities' =
                 IF recorded = <<>> THEN arbitrage_opportunities
                 ELSE DequeAppend(arbitrage_opportunities, recorded[1], DEQUE_MAXLEN)
          /\ pc' = IF prog = "free" /\ r.raised
                   THEN [pc EXCEPT ![f] = AfterHandlerError(prog, "data")]
                   ELSE pc
    /\ prices' = Pass_table(prices, now)
    /\ scan' = NoScan
    /\ UNCHANGED <<prog, now, order, message_counts, last_update, message_count,
                   last_delay, failures, bench>>

ScanQuotes == FeedQuotes \cup {[bid |-> 500000, ask |-> 500005]}

ScanMsgs == {m \in Msgs : m.kind = "data" /\ [bid |-> m.bid, ask |-> m.ask] \in ScanQuotes}

ScanTick == EventLoopFree /\ TickTo(1..MaxEarly)

ScanNext ==
    \/ ScanTick
    \/ \E f \in Feeds(prog) :
          \/ Connect(f)
          \/ Subscribe(f)
          \/ \E m \in ScanMsgs : AllStreaming /\ Ingest(f, m)
          \/ PassEnd(f)

SpecScan == InitStreaming /\ [][ScanNext]_vars

----------------------------------------------------------------------------
(* The benchmark orchestrators: SpeedTester.run_all_tests of                *)
(* speed_comparison.py and UltimateExchangeSpeedTester.run_all_tests of     *)
(* ultimate_exchange_speed_test.py.  Each runs the test functions of a list *)
(* one after the other; a test function makes one connection, or several    *)
(* in a row, and measures each for test_duration.  Times are in units of    *)
(* half a second.  Of the 28 tests of the ultimate tester the model keeps,  *)
(* in list order, the first three and the first one with a timed receive.   *)

\* no monitor runs in a benchmark script
IdleMonitor ==
    /\ now = 1
    /\ pc = <<>>
    /\ prices = <<>>
    /\ order = <<>>
    /\ message_counts = <<>>
    /\ last_update = <<>>
    /\ arbitrage_opportunities = <<>>
    /\ total_opportunities = 0
    /\ message_count = 0
    /\ res = NoRes
    /\ last_delay = <<>>
    /\ failures = <<>>
    /\ scan = NoScan

monitor == <<pc, prices, order, message_counts, last_update,
             arbitrage_opportunities, total_opportunities, res, last_delay,
             failures, scan>>

BenchPrograms == {"tester", "ultimate"}

TesterTests ==
    <<"test_binance_ticker", "test_binance_bookticker",
      "test_binance_depth_100ms", "test_binance_depth_1000ms",
      "test_binance_minimal_processing">>

UltimateTests ==
    <<"test_colocation_simulation", "test_binance_sbe_optimized",
      "test_binance_ultra_optimized", "test_okx_books5_ultra">>

BenchTests(p) == IF p = "tester" THEN TesterTests ELSE UltimateTests

\* the connections a test function measures, in order
Runs(name) ==
    IF name = "test_colocation_simulation" THEN <<>>
    ELSE IF name = "test_binance_ultra_optimized"
         THEN <<"BookTicker_Ultra", "SymbolTicker_Ultra", "PartialDepth_Ultra">>
         ELSE <<name>>

\* the timeout of a test's receive, in half seconds; NoTimeout: ws.recv() is
\* awaited bare
RecvTimeoutOf(name) ==
    IF name \in {"test_binance_minimal_processing", "test_binance_sbe_optimized",
                 "test_binance_ultra_optimized"}
    THEN NoTimeout
    ELSE IF name = "test_okx_books5_ultra" THEN ULTRA_RECV_TIMEOUT
         ELSE TESTER_RECV_TIMEOUT

\* what the receive loop does with a message it cannot use
OnJunk(name) ==
    IF name = "test_binance_minimal_processing" THEN "count"
    ELSE IF name \in Range(TesterTests) THEN "break"
         ELSE "skip"

\* _create_failed_result
Create_failed_result(method) ==
    [method |-> method, total_messages |-> 0, success_rate |-> 0]

\* what one measurement returns: <<>> is None
RunResult(p, name, method, connected, latencies, count) ==
    IF p = "tester"
    THEN IF ~ connected THEN <<>>
         ELSE IF name # "test_binance_minimal_processing" /\ latencies = 0 THEN <<>>
              ELSE <<[endpoint_name |-> method, total_messages |-> count]>>
    ELSE IF ~ connected \/ latencies = 0 THEN <<Create_failed_result(method)>>
         ELSE <<[method |-> method, total_messages |-> count, success_rate |-> 1]>>

\* test_colocation_simulation: 1000 messages per second, none received
Colocation_result ==
    [method |-> "Co-location FIX/UDP", total_messages |-> TestDuration * 500,
     success_rate |-> 1]

InitBench ==
    /\ prog \in BenchPrograms
    /\ IdleMonitor
    /\ bench = [phase |-> "start", i |-> 1, j |-> 1, elapsed |-> 0, waited |-> 0,
                latencies |-> 0, message_count |-> 0, partial |-> <<>>,
                results |-> <<>>, stored |-> <<>>, ran |-> <<>>]

CurrentTest == BenchTests(prog)[bench.i]

\* the test function returns value to run_all_tests, which appends its
\* results and goes on with the next test, or stores the list after the last
TestReturned(b, value) ==
    LET results == b.results \o value
    IN IF b.i < Len(BenchTests(prog))
       THEN [b EXCEPT !.phase = "start", !.i = b.i + 1, !.j = 1,
                      !.elapsed = 0, !.waited = 0, !.latencies = 0,
                      !.message_count = 0, !.partial = <<>>, !.results = results]
       ELSE [b EXCEPT !.phase = "done", !.i = b.i + 1, !.j = 1,
                      !.elapsed = 0, !.waited = 0, !.latencies = 0,
                      !.message_count = 0, !.partial = <<>>, !.results = results,
                      !.stored = results]

\* one measurement ends with run_result
Finish(b, run_result) ==
    LET partial == b.partial \o run_result
    IN IF b.j < Len(Runs(BenchTests(prog)[b.i]))
       THEN [b EXCEPT !.phase = "start", !.j = b.j + 1, !.elapsed = 0,
                      !.waited = 0, !.latencies = 0, !.message_count = 0,
                      !.partial = partial]
       ELSE TestReturned(b, partial)

Measured(b, connected) ==
    RunResult(prog, BenchTests(prog)[b.i], Runs(BenchTests(prog)[b.i])[b.j],
              connected, b.latencies, b.message_count)

Started(b) == IF b.j = 1 THEN [b EXCEPT !.ran = Append(b.ran, b.i)] ELSE b

BenchFrame == UNCHANGED <<prog, now, message_count>> /\ UNCHANGED monitor

RunSimulated ==
    /\ prog \in BenchPrograms
    /\ bench.phase = "start"
    /\ Runs(CurrentTest) = <<>>
    /\ bench' = TestReturned(Started(bench), <<Colocation_result>>)
    /\ BenchFrame

ConnectOK ==
    /\ prog \in BenchPrograms
    /\ bench.phase = "start"
    /\ Runs(CurrentTest) # <<>>
    /\ bench' = [Started(bench) EXCEPT !.phase = "loop"]
    /\ BenchFrame

ConnectFailed ==
    /\ prog \in BenchPrograms
    /\ bench.phase = "start"
    /\ Runs(CurrentTest) # <<>>
    /\ bench' = Finish(Started(bench), Measured(bench, FALSE))
    /\ BenchFrame

\* while time.perf_counter() - test_start < duration
LoopTest ==
    /\ prog \in BenchPrograms
    /\ bench.phase = "loop"
    /\ bench' = IF bench.elapsed < TestDuration
                THEN [bench EXCEPT !.phase = "recv", !.waited = 0]
                ELSE Finish(bench, Measured(bench, TRUE))
    /\ BenchFrame

Deliver(kind) ==
    /\ prog \in BenchPrograms
    /\ bench.phase = "recv"
    /\ bench.message_count < MaxMsgs
    /\ bench' =
          IF kind = "data" \/ OnJunk(CurrentTest) = "count"
          THEN [bench EXCEPT !.phase = "loop",
                             !.latencies = bench.latencies + 1,
                             !.message_count = bench.message_count + 1]
          ELSE IF OnJunk(CurrentTest) = "break"
               THEN Finish(bench, Measured(bench, TRUE))
               ELSE [bench EXCEPT !.phase = "loop"]
    /\ BenchFrame

\* half a second passes and nothing arrives; the script stays in its await.
\* The model stops counting the wait at MaxWait: time goes on, nothing else
\* changes.
Silence ==
    /\ prog \in BenchPrograms
    /\ bench.phase = "recv"
    /\ RecvTimeoutOf(CurrentTest) # NoTimeout
       => bench.waited < RecvTimeoutOf(CurrentTest)
    /\ bench' = IF bench.waited < MaxWait
                THEN [bench EXCEPT !.waited = bench.waited + 1,
                                   !.elapsed = bench.elapsed + 1]
                ELSE bench
    /\ BenchFrame

\* asyncio.wait_for raises TimeoutError: continue
TimedOut ==
    /\ prog \in BenchPrograms
    /\ bench.phase = "recv"
    /\ RecvTimeoutOf(CurrentTest) # NoTimeout
    /\ bench.waited = RecvTimeoutOf(CurrentTest)
    /\ bench' = [bench EXCEPT !.phase = "loop"]
    /\ BenchFrame

\* the connection is lost: ws.recv() raises, break
Closed ==
    /\ prog \in BenchPrograms
    /\ bench.phase = "recv"
    /\ bench' = Finish(bench, Measured(bench, TRUE))
    /\ BenchFrame

BenchNext ==
    \/ RunSimulated
    \/ ConnectOK
    \/ ConnectFailed
    \/ LoopTest
    \/ \E kind \in {"data", "junk"} : Deliver(kind)
    \/ Silence
    \/ TimedOut
    \/ Closed

SpecBench == InitBench /\ [][BenchNext]_vars

\* the script takes its steps, connection attempts end, and time passes
\* whenever it can; the exchange need not send anything
SpecBenchLive ==
    /\ SpecBench
    /\ WF_vars(RunSimulated \/ ConnectOK \/ ConnectFailed \/ LoopTest \/ TimedOut)
    /\ SF_vars(Silence)

----------------------------------------------------------------------------
(* UltraFastBinanceStreamer.stream_comparison of ultra_fast_streamer.py:    *)
(* two tasks, each running one stream under asyncio.wait_for with the same  *)
(* duration.  Both stream methods count in self.message_count, here the     *)
(* variable message_count; bench.own is the number of messages each stream  *)
(* has received itself.                                                     *)

Streams == {"BookTicker", "Depth"}

InitCompare ==
    /\ prog = "comparison"
    /\ IdleMonitor
    /\ bench = [phase |-> "compare",
                pcs |-> [s \in Streams |-> "connect"],
                own |-> [s \in Streams |-> 0],
                reported |-> [s \in Streams |-> <<>>]]

\* the reading of the clock at which wait_for cancels the streams
Deadline == 1 + CompareDuration

CompareFrame == UNCHANGED prog /\ UNCHANGED monitor

StreamConnect(s) ==
    /\ prog = "comparison"
    /\ bench.pcs[s] = "connect"
    /\ bench' = [bench EXCEPT !.pcs[s] = "recv"]
    /\ UNCHANGED <<now, message_count>>
    /\ CompareFrame

\* websockets.connect raises: the exception leaves _timed_stream and is
\* collected by gather
StreamConnectFail(s) ==
    /\ prog = "comparison"
    /\ bench.pcs[s] = "connect"
    /\ bench' = [bench EXCEPT !.pcs[s] = "ended"]
    /\ UNCHANGED <<now, message_count>>
    /\ CompareFrame

\* msg = await ws.recv(); self.message_count += 1
StreamRecv(s) ==
    /\ prog = "comparison"
    /\ bench.pcs[s] = "recv"
    /\ message_count < MaxStreamMsgs
    /\ message_count' = message_count + 1
    /\ bench' = [bench EXCEPT !.own[s] = bench.own[s] + 1]
    /\ UNCHANGED now
    /\ CompareFrame

\* the receive raises: break, the stream method returns before the timeout
StreamError(s) ==
    /\ prog = "comparison"
    /\ bench.pcs[s] = "recv"
    /\ bench' = [bench EXCEPT !.pcs[s] = "ended"]
    /\ UNCHANGED <<now, message_count>>
    /\ CompareFrame

\* except asyncio.TimeoutError: the report of _timed_stream
StreamTimeout(s) ==
    /\ prog = "comparison"
    /\ bench.pcs[s] \in {"connect", "recv"}
    /\ now >= Deadline
    /\ bench' = [bench EXCEPT !.pcs[s] = "reported",
                              !.reported[s] = <<message_count>>]
    /\ UNCHANGED <<now, message_count>>
    /\ CompareFrame

CompareTick ==
    /\ prog = "comparison"
    /\ now < Deadline
    /\ now' = now + 1
    /\ UNCHANGED <<message_count, bench>>
    /\ CompareFrame

CompareNext ==
    \/ CompareTick
    \/ \E s \in Streams :
          \/ StreamConnect(s)
          \/ StreamConnectFail(s)
          \/ StreamRecv(s)
          \/ StreamError(s)
          \/ StreamTimeout(s)

SpecCompare == InitCompare /\ [][CompareNext]_vars

----------------------------------------------------------------------------
(* MexcKucoinSpeedTester.test_mexc_ultra_v2 of mexc_kucoin_speed_test.py:   *)
(* the endpoints are probed one after the other, each for                   *)
(* MEXC_PROBE_SECONDS, and the full test runs on the first one that         *)
(* delivers MEXC_PROBE_VALID messages with a bid and an ask.  Times are in  *)
(* seconds.  bench.probed, bench.valid and bench.full_on record which       *)
(* endpoints were probed, how many valid messages each delivered during its *)
(* probe, and where the full test ran.                                      *)

Endpoints ==
    <<"MEXC Main WebSocket", "MEXC Raw WebSocket", "MEXC Contract WebSocket">>

InitMexc ==
    /\ prog = "mexc"
    /\ IdleMonitor
    /\ bench = [phase |-> "connect", e |-> 1, test_messages |-> 0,
                elapsed |-> 0, waited |-> 0, successful_endpoint |-> 0,
                probed |-> <<>>, valid |-> [k \in 1..Len(Endpoints) |-> 0],
                full_on |-> <<>>, returned |-> "pending"]

\* Mutant: the first valid message selects the endpoint.
ProbeSucceeded_once(test_messages) == test_messages >= 1

\* if test_messages >= 3
ProbeSucceeded(test_messages) == test_messages >= MEXC_PROBE_VALID

\* the for loop goes on with the next endpoint; after the last one the
\* function returns None
NextEndpoint(b) ==
    IF b.e < Len(Endpoints)
    THEN [b EXCEPT !.phase = "connect", !.e = b.e + 1, !.test_messages = 0,
                   !.elapsed = 0, !.waited = 0]
    ELSE [b EXCEPT !.phase = "done", !.returned = "None"]

MexcFrame == UNCHANGED <<prog, now, message_count>> /\ UNCHANGED monitor

ProbeConnect ==
    /\ prog = "mexc"
    /\ bench.phase = "connect"
    /\ bench' = [bench EXCEPT !.phase = "loop", !.test_messages = 0,
                              !.elapsed = 0,
                              !.probed = Append(bench.probed, bench.e)]
    /\ MexcFrame

\* websockets.connect or ws.send raises: continue
ProbeConnectFail ==
    /\ prog = "mexc"
    /\ bench.phase = "connect"
    /\ bench' = NextEndpoint([bench EXCEPT !.probed = Append(bench.probed, bench.e)])
    /\ MexcFrame

\* while time.perf_counter() - test_start < 5
ProbeLoop ==
    /\ prog = "mexc"
    /\ bench.phase = "loop"
    /\ bench' = IF bench.elapsed < MEXC_PROBE_SECONDS
                THEN [bench EXCEPT !.phase = "recv", !.waited = 0]
                ELSE NextEndpoint(bench)
    /\ MexcFrame

\* a message arrives; valid: one of the four formats, with a bid and an ask
ProbeDeliver(valid) ==
    /\ prog = "mexc"
    /\ bench.phase = "recv"
    /\ bench' =
          IF valid
          THEN IF ProbeSucceeded(bench.test_messages + 1)
               THEN [bench EXCEPT !.phase = "full",
                                  !.test_messages = bench.test_messages + 1,
                                  !.valid[bench.e] = bench.valid[bench.e] + 1,
                                  !.successful_endpoint = bench.e]
               ELSE [bench EXCEPT !.phase = "loop",
                                  !.test_messages = bench.test_messages + 1,
                                  !.valid[bench.e] = bench.valid[bench.e] + 1]
          ELSE [bench EXCEPT !.phase = "loop"]
    /\ MexcFrame

\* a second passes and nothing arrives
ProbeSilence ==
    /\ prog = "mexc"
    /\ bench.phase = "recv"
    /\ bench.waited < MEXC_PROBE_TIMEOUT
    /\ bench' = [bench EXCEPT !.waited = bench.waited + 1,
                              !.elapsed = bench.elapsed + 1]
    /\ MexcFrame

ProbeTimedOut ==
    /\ prog = "mexc"
    /\ bench.phase = "recv"
    /\ bench.waited = MEXC_PROBE_TIMEOUT
    /\ bench' = [bench EXCEPT !.phase = "loop"]
    /\ MexcFrame

\* the connection is lost: this and every later receive raises, and the
\* loop continues until the probe's time is over
ProbeClosed ==
    /\ prog = "mexc"
    /\ bench.phase = "recv"
    /\ bench' = [bench EXCEPT !.phase = "loop",
                              !.elapsed = IF bench.elapsed < MEXC_PROBE_SECONDS
                                          THEN MEXC_PROBE_SECONDS
                                          ELSE bench.elapsed]
    /\ MexcFrame

\* the full test cannot connect: return None
FullConnectFail ==
    /\ prog = "mexc"
    /\ bench.phase = "full"
    /\ bench' = [bench EXCEPT !.phase = "done", !.returned = "None",
                              !.full_on = Append(bench.full_on,
                                                 bench.successful_endpoint)]
    /\ MexcFrame

\* the full test runs for duration and collects n latencies
FullTest(n) ==
    /\ prog = "mexc"
    /\ bench.phase = "full"
    /\ bench' = [bench EXCEPT !.phase = "done",
                              !.returned = IF n > 0 THEN "result" ELSE "None",
                              !.full_on = Append(bench.full_on,
                                                 bench.successful_endpoint)]
    /\ MexcFrame

MexcNext ==
    \/ ProbeConnect
    \/ ProbeConnectFail
    \/ ProbeLoop
    \/ \E valid \in BOOLEAN : ProbeDeliver(valid)
    \/ ProbeSilence
    \/ ProbeTimedOut
    \/ ProbeClosed
    \/ FullConnectFail
    \/ \E n \in 0..MaxMsgs : FullTest(n)

SpecMexc == InitMexc /\ [][MexcNext]_vars

----------------------------------------------------------------------------
(* Vocabulary of the properties.  A state with res.pass is the state right *)
(* after a handler that ran a detection pass: prices and now are those the *)
(* pass saw, res.emitted is what it printed or recorded.                   *)

Emitted == res.emitted

\* the exchange has delivered data at least once
HasData(x) == x \in DOMAIN prices /\ prices[x].time > 0

Delivered == {x \in DOMAIN prices : HasData(x)}

Age(x) == now - prices[x].time

\* the staleness window of the running monitor
MaxAge == IF prog = "speed" THEN SPEED_MAX_AGE ELSE FREE_MAX_AGE

\* the exchanges the pass itself treats as fresh
DetectorFresh(x) ==
    IF prog = "speed" THEN Speed_fresh(prices[x], prices[x], now)
    ELSE x \in Range(Free_active(prices, order, now))

FreshSet == {x \in Delivered : DetectorFresh(x)}

\* buy at x's ask, sell at y's bid
Profit(x, y) == prices[y].bid - prices[x].ask

\* the direction's percentage is above / exactly at the 0.01 % threshold
AboveThreshold(x, y) ==
    prices[x].ask > 0 /\ Profit(x, y) * 100 * MIN_PCT_DEN > MIN_PCT_NUM * prices[x].ask

AtThreshold(x, y) ==
    prices[x].ask > 0 /\ Profit(x, y) * 100 * MIN_PCT_DEN = MIN_PCT_NUM * prices[x].ask

\* the directions over distinct fresh exchanges that qualify
Qualifying == {d \in FreshSet \X FreshSet : d[1] # d[2] /\ AboveThreshold(d[1], d[2])}

----------------------------------------------------------------------------
(* C1 (freshness gating): after every detection pass, no emitted            *)
(* opportunity names an exchange whose quote is older than the staleness    *)
(* window, and every quote whose age is at most the window is treated as    *)
(* fresh by the pass.  FreeArbitrageMonitor treats a quote of age exactly   *)
(* the window as stale.                                                     *)
C1_freshness_gating ==
    res.pass =>
        /\ \A k \in 1..Len(Emitted) :
               /\ Age(Emitted[k].buy_exchange) <= MaxAge
               /\ Age(Emitted[k].sell_exchange) <= MaxAge
        /\ \A x \in Delivered : Age(x) <= MaxAge => DetectorFresh(x)

(* C2 (profit correctness): every emitted opportunity buys at the buy       *)
(* exchange's stored ask, sells at the sell exchange's stored bid, its      *)
(* profit is sell_price - buy_price and its percentage is profit over       *)
(* buy_price; when exactly two exchanges hold data, both fresh, one with    *)
(* (50000.00, 50000.50) and the other with (50010.00, 50010.80), the pass   *)
(* emits exactly buy the first at 50000.50, sell the second at 50010.00,    *)
(* profit 9.50.                                                             *)
C2_profit_correct ==
    res.pass =>
        /\ \A k \in 1..Len(Emitted) :
              LET o == Emitted[k]
              IN /\ o.buy_price = prices[o.buy_exchange].ask
                 /\ o.sell_price = prices[o.sell_exchange].bid
                 /\ o.profit_usd = o.sell_price - o.buy_price
                 /\ o.profit_pct.den > 0
                 /\ o.profit_pct.num * o.buy_price = o.profit_usd * o.profit_pct.den
        /\ \A a, b \in FreshSet :
              ( /\ Delivered = {a, b}
                /\ prices[a].bid = 500000 /\ prices[a].ask = 500005
                /\ prices[b].bid = 500100 /\ prices[b].ask = 500108 )
              => /\ Len(Emitted) = 1
                 /\ Emitted[1].buy_exchange = a /\ Emitted[1].sell_exchange = b
                 /\ Emitted[1].buy_price = 500005 /\ Emitted[1].sell_price = 500100
                 /\ Emitted[1].profit_usd = 95

\* the end-to-end scenario has just been detected
C2_witness ==
    /\ res.pass
    /\ Len(Emitted) = 1
    /\ \E a, b \in FreshSet :
           /\ Delivered = {a, b}
           /\ prices[a].bid = 500000 /\ prices[a].ask = 500005
           /\ prices[b].bid = 500100 /\ prices[b].ask = 500108
           /\ Emitted[1].buy_exchange = a /\ Emitted[1].sell_exchange = b

(* C3 (threshold boundary): a pass that completes with a direction over     *)
(* fresh exchanges exactly at the 0.01 % threshold emits an opportunity,    *)
(* and nothing emitted is below the threshold or without profit.  Both      *)
(* detectors test "> 0.01" and drop a direction exactly at the threshold.   *)
C3_threshold_inclusive ==
    (res.pass /\ ~ res.raised) =>
        /\ (\E x, y \in FreshSet : x # y /\ AtThreshold(x, y)) => Emitted # <<>>
        /\ \A k \in 1..Len(Emitted) :
               /\ Emitted[k].profit_usd > 0
               /\ Emitted[k].profit_usd * 100 * MIN_PCT_DEN
                      >= MIN_PCT_NUM * Emitted[k].buy_price

C5_one_per_pass ==
    res.pass =>
        /\ Len(Emitted) <= 1
        /\ Len(Emitted) = 1 <=> Qualifying # {}

(* C6 (no single-exchange opportunity): while at most one exchange has      *)
(* delivered data, a pass emits nothing, whatever that exchange's bid and   *)
(* ask are.                                                                 *)
C6_no_single_exchange ==
    (res.pass /\ Cardinality(Delivered) <= 1) => Emitted = <<>>

\* a pass over a single exchange whose book is crossed by more than the
\* threshold
C6_witness ==
    /\ res.pass
    /\ \E x \in Delivered :
           /\ Delivered = {x}
           /\ AboveThreshold(x, x)

(* C7 (distinct venues): every emitted opportunity buys and sells on        *)
(* different exchanges.                                                     *)
C7_distinct_venues ==
    res.pass =>
        \A k \in 1..Len(Emitted) :
            Emitted[k].buy_exchange # Emitted[k].sell_exchange

\* an opportunity is emitted while one fresh exchange holds both the highest
\* bid and the lowest ask
C7_witness ==
    /\ res.pass
    /\ Emitted # <<>>
    /\ \E x \in FreshSet : \A y \in FreshSet :
           prices[y].bid <= prices[x].bid /\ prices[y].ask >= prices[x].ask

(* C8 (out-of-order rejection): handling a data message whose timestamp is  *)
(* not greater than the stored one of its exchange leaves that exchange's   *)
(* stored quote unchanged.  No handler compares timestamps: the quote is    *)
(* overwritten.                                                             *)
C8_out_of_order_rejected ==
    [][\A f \in Feeds(prog) : \A m \in Msgs :
          ( /\ m.kind = "data"
            /\ HasData(f)
            /\ now <= prices[f].time
            /\ (SpeedRecv(f, m) \/ FreeRecv(f, m)) )
          => prices'[f] = prices[f]]_vars

(* C9 (retry forever): no failure leaves a feed task terminated.  The slow  *)
(* streamer's stream_price returns on a connection error or a close.        *)
C9_never_terminated ==
    \A f \in Feeds(prog) : pc[f] # "terminated"

(* C10 (malformed messages are not fatal): a message that fails to decode   *)
(* leaves the stored quotes unchanged and the feed in the streaming state.  *)
(* The free monitor's feeds leave their receive loop and reconnect, the     *)
(* slow streamer returns on a missing field.                                *)
C10_malformed_not_fatal ==
    [][\A f \in Feeds(prog) : \A m \in Msgs :
          (m.kind \in {"badjson", "badfield"} /\ Recv(f, m))
          => (prices' = prices /\ pc'[f] = "stream")]_vars

(* C11 (error isolation): a step that changes one feed's position leaves    *)
(* every other feed's position and stored quote unchanged, and a data       *)
(* message with a positive ask is handled by its feed with the detection    *)
(* pass completing and the feed still streaming.  A zero ask stored by one  *)
(* venue makes the pass raise in the handlers of the other venues; in the   *)
(* free monitor those feeds then drop their connections.                    *)
C11_error_isolation ==
    [][/\ \A f \in Feeds(prog) :
              pc'[f] # pc[f] =>
                  \A g \in Feeds(prog) \ {f} :
                      /\ pc'[g] = pc[g]
                      /\ g \in DOMAIN prices =>
                             (g \in DOMAIN prices' /\ prices'[g] = prices[g])
       /\ \A g \in Feeds(prog) : \A m \in Msgs :
              ( /\ m.kind = "data"
                /\ m.ask > 0
                /\ (SpeedRecv(g, m) \/ FreeRecv(g, m)) )
              => (~ res'.raised /\ pc'[g] = "stream")]_vars

(* C12 (backoff growth): when a connection attempt of a feed fails and the  *)
(* feed sleeps, the delay is at most the largest delay of the program, and  *)
(* when the attempt before it (with no streaming in between) failed too,    *)
(* the delay is not less than the one slept then.  Every delay is the       *)
(* literal 1 s.                                                             *)
C12_backoff_growth ==
    [][\A f \in Feeds(prog) :
          (pc[f] \in {"connect", "subscribe"} /\ pc'[f] = "sleep")
          => /\ last_delay'[f] <= RETRY_DELAY
             /\ failures[f] >= 1 => last_delay'[f] >= last_delay[f]]_vars

\* a feed sleeps after its second failed attempt in a row
C12_witness ==
    \E f \in Feeds(prog) :
        pc[f] = "sleep" /\ failures[f] >= 2 /\ last_delay[f] > 0

C14_scan_atomic ==
    scan.by # None => prices = scan.view

\* a pass is in progress over two exchanges with data while another feed is
\* connected and could deliver
C14_witness ==
    /\ scan.by # None
    /\ Cardinality(Delivered) >= 2
    /\ \E g \in Feeds(prog) \ {scan.by} : pc[g] = "stream"

(* C15 (idempotent snapshot): a step that stores no quote leaves the whole  *)
(* price table as it was; in particular the end of a detection pass does.   *)
C15_idempotent_snapshot ==
    [][(~ \E f \in Feeds(prog) : \E m \in Msgs : Ingest(f, m))
          => prices' = prices]_vars

\* a detection pass over three exchanges, one with a quote older than the
\* clock, has just run to its end
C15_witness ==
    /\ res.pass
    /\ scan = NoScan
    /\ Cardinality(Delivered) = 3
    /\ \E x \in Delivered : prices[x].time < now

\* the exchange names in the order of Python's string comparison
LexOrder == <<"Binance", "Bybit", "OKX", "binance", "bybit", "coinbase">>

LexRank(x) == CHOOSE i \in 1..Len(LexOrder) : LexOrder[i] = x

\* (a1, a2) <= (b1, b2) as tuples of strings
PairLeq(a1, a2, b1, b2) ==
    LexRank(a1) < LexRank(b1) \/ (a1 = b1 /\ LexRank(a2) <= LexRank(b2))

(* C16 (deterministic tie-break): every qualifying direction with the same  *)
(* percentage as the emitted opportunity has a lower absolute profit, or    *)
(* the same profit and a (buy, sell) pair that is not lexicographically     *)
(* smaller.  ArbitrageSpeedMonitor emits the first maximum in the order in  *)
(* which the exchanges first delivered, FreeArbitrageMonitor the first      *)
(* exchange in the order of its table.                                      *)
C16_tie_break ==
    res.pass =>
        \A k \in 1..Len(Emitted) : \A d \in Qualifying :
            LET e == Emitted[k]
            IN Profit(d[1], d[2]) * e.buy_price = e.profit_usd * prices[d[1]].ask
               => \/ Profit(d[1], d[2]) < e.profit_usd
                  \/ /\ Profit(d[1], d[2]) = e.profit_usd
                     /\ PairLeq(e.buy_exchange, e.sell_exchange, d[1], d[2])

\* the state of the connection state machine a feed task's position stands for
ConnState(position) ==
    CASE position = "connect" -> "Connecting"
      [] position = "subscribe" -> "Subscribing"
      [] position = "stream" -> "Streaming"
      [] OTHER -> "Disconnected"

\* the transitions of the connection state machine
Transitions ==
    { <<"Disconnected", "Connecting">>,
      <<"Connecting", "Subscribing">>, <<"Connecting", "Disconnected">>,
      <<"Subscribing", "Streaming">>, <<"Subscribing", "Disconnected">>,
      <<"Streaming", "Degraded">>, <<"Streaming", "Disconnected">>,
      <<"Degraded", "Streaming">>, <<"Degraded", "Disconnected">> }

\* One stretch of code between two awaits takes one transition, or two in a
\* row: leaving "async with" disconnects and the loop starts the next attempt
\* at once; a feed whose subscription is part of its URL is subscribed as
\* soon as it is connected.
Along(f, a, b) ==
    \/ <<a, b>> \in Transitions
    \/ a = "Streaming" /\ b = "Connecting"
    \/ ~ Subscribes(f) /\ a = "Connecting" /\ b = "Streaming"

\* the entries of exchange x in table P: one or none
Stored(P, x) == IF x \in DOMAIN P THEN {P[x]} ELSE {}

(* C17 (connection state machine): a feed's position changes only along the *)
(* transitions of the connection state machine, and a feed's quote is       *)
(* stored only by a step taken while the feed is streaming, that is after   *)
(* it has connected and sent its subscription.                              *)
C17_connection_states ==
    [][\A f \in Feeds(prog) :
          /\ pc'[f] # pc[f] => Along(f, ConnState(pc[f]), ConnState(pc'[f]))
          /\ Stored(prices', f) # Stored(prices, f) => ConnState(pc[f]) = "Streaming"]_vars

\* a feed that subscribes has connected, subscribed and stored a quote
C17_witness ==
    \E f \in Feeds(prog) :
        Subscribes(f) /\ pc[f] = "stream" /\ HasData(f)

(* C18 (backoff before every reconnect): no step takes a streaming feed     *)
(* straight to its next connection attempt; a sleep lies in between.  The   *)
(* free monitor's feeds reconnect at once after every lost stream, the      *)
(* speed monitor's after a clean close.                                     *)
C18_backoff_before_reconnect ==
    [][\A f \in Feeds(prog) : ~ (pc[f] = "stream" /\ pc'[f] = "connect")]_vars

C20_quote_lifecycle ==
    /\ [](prog # "slow" => \A f \in Feeds(prog) : f \in DOMAIN prices)
    /\ [][/\ DOMAIN prices \subseteq DOMAIN prices'
          /\ \A f \in DOMAIN prices :
                 prices'[f] # prices[f]
                 => \E m \in Msgs : m.kind = "data" /\ Recv(f, m)]_vars

(* C21 (detection trigger coalescing): no two detection passes run one      *)
(* right after the other at the same reading of the clock, that is within   *)
(* less than any minimum interval.  Both monitors run a full pass inside    *)
(* the handler of every data message.                                       *)
C21_passes_rate_limited ==
    [][~ (res.pass /\ res'.pass /\ now' = now)]_vars

(* C22 (single writer per exchange): a handler that stores a quote of one   *)
(* exchange changes no other exchange's entry and no other exchange's       *)
(* bookkeeping, and an entry changes only in a step in which its own feed   *)
(* stores a quote, however the feeds' steps interleave.                     *)
C22_single_writer ==
    /\ [][\A f \in Feeds(prog) : \A m \in Msgs :
             Ingest(f, m)
             => \A g \in Feeds(prog) \ {f} :
                   /\ Stored(prices', g) = Stored(prices, g)
                   /\ Stored(last_update', g) = Stored(last_update, g)
                   /\ Stored(message_counts', g) = Stored(message_counts, g)]_vars
    /\ [][\A x \in Feeds(prog) :
             Stored(prices', x) # Stored(prices, x)
             => \E m \in Msgs : Ingest(x, m)]_vars

\* a feed has just stored a quote while another exchange holds a different
\* one
C22_witness ==
    /\ scan.by # None
    /\ \E g \in Feeds(prog) \ {scan.by} :
          /\ HasData(g)
          /\ prices[g].bid # prices[scan.by].bid

(* C23 (the pass completes for any stored quotes): a detection pass of      *)
(* ArbitrageSpeedMonitor never raises, whatever bids and asks are stored,   *)
(* and it reports an opportunity whenever a pair of fresh quotes with       *)
(* positive asks qualifies.  The profit percentage divides by the buying    *)
(* exchange's ask, which a feed can store as zero.                          *)
C23_pass_completes ==
    (prog = "speed" /\ res.pass)
    => /\ ~ res.raised
       /\ Qualifying # {} => Emitted # <<>>

(* C24 (the two detectors agree on existence): when a pass of               *)
(* FreeArbitrageMonitor completes, it records an opportunity whenever the   *)
(* pairwise scan of ArbitrageSpeedMonitor, run over the same fresh quotes,  *)
(* would report one.  The free monitor compares only the best bid and the   *)
(* best ask of the whole table, and drops the pass when one exchange holds  *)
(* both.                                                                    *)
Pairwise_on_active ==
    Speed_check_arbitrage(prices, Free_active(prices, order, now), now)

C24_detectors_agree ==
    (prog = "free" /\ res.pass /\ ~ res.raised)
    => (Pairwise_on_active.emitted # <<>> => Emitted # <<>>)

(* C25 (opportunity history bound): the history of FreeArbitrageMonitor     *)
(* never holds more than DEQUE_MAXLEN entries and never more than           *)
(* total_opportunities; a step that records an opportunity adds one to      *)
(* total_opportunities and puts the opportunity last, behind the most       *)
(* recent earlier entries in their order; every other step leaves both      *)
(* unchanged.                                                               *)
C25_history_bound ==
    /\ [](/\ Len(arbitrage_opportunities) <= DEQUE_MAXLEN
          /\ Len(arbitrage_opportunities) <= total_opportunities)
    /\ [][LET d == arbitrage_opportunities
              e == arbitrage_opportunities'
              kept == Len(e) - 1
          IN IF res'.pass /\ res'.emitted # <<>>
             THEN /\ total_opportunities' = total_opportunities + 1
                  /\ Len(e) = IF Len(d) < DEQUE_MAXLEN THEN Len(d) + 1
                              ELSE DEQUE_MAXLEN
                  /\ e[Len(e)] = res'.emitted[1]
                  /\ \A i \in 1..kept : e[i] = d[Len(d) - kept + i]
             ELSE /\ total_opportunities' = total_opportunities
                  /\ e = d]_vars

\* the history is full, entries have been dropped from its front, and it
\* holds two different opportunities
C25_witness ==
    /\ Len(arbitrage_opportunities) = DEQUE_MAXLEN
    /\ total_opportunities > DEQUE_MAXLEN
    /\ res.pass /\ res.emitted # <<>>
    /\ arbitrage_opportunities[DEQUE_MAXLEN] # arbitrage_opportunities[1]

(* C26 (bookkeeping consistency): in ArbitrageSpeedMonitor the price table, *)
(* message_counts and last_update have the same exchanges, last_update of   *)
(* an exchange is the time of its stored quote, and message_counts of an    *)
(* exchange goes up by exactly one in every update_price for it, also when  *)
(* the detection pass raises, and changes in no other step.                 *)
CallsCounted(x) ==
    IF x \in DOMAIN message_counts THEN message_counts[x] ELSE 0

C26_bookkeeping ==
    /\ [](/\ DOMAIN message_counts = DOMAIN prices
          /\ DOMAIN last_update = DOMAIN prices
          /\ \A x \in DOMAIN prices : last_update[x] = prices[x].time)
    /\ [][\A f \in Feeds(prog) :
             IF \E m \in Msgs : m.kind = "data" /\ SpeedRecv(f, m)
             THEN Stored(message_counts', f) = {CallsCounted(f) + 1}
             ELSE Stored(message_counts', f) = Stored(message_counts, f)]_vars

\* an exchange has been updated twice and the pass of the last update raised
C26_witness ==
    /\ res.pass /\ res.raised
    /\ \E x \in DOMAIN message_counts : message_counts[x] = 2
    /\ \E x \in DOMAIN prices : prices[x].time < now

(* C27 (timed benchmark termination): no timed test of SpeedTester stays in *)
(* one receive for longer than the receive's timeout, so that the test's    *)
(* loop sees the end of its duration also when the exchange has stopped     *)
(* sending.  _run_minimal_test awaits ws.recv() without a timeout, on a     *)
(* connection without pings.                                                *)
C27_test_returns ==
    (prog = "tester" /\ bench.phase = "recv")
    => /\ bench.waited <= TESTER_RECV_TIMEOUT
       /\ bench.elapsed < TestDuration + TESTER_RECV_TIMEOUT

(* C29 (benchmark orchestration isolation): run_all_tests starts the tests  *)
(* of its list one after the other in list order, each once, and every test *)
(* of the list is started in the end, whatever the tests before it met: a   *)
(* failed connection, a lost connection or an exchange that sends nothing;  *)
(* when run_all_tests is through, the stored list is the list it built.     *)
(* Three of the ultimate tester's receive loops await ws.recv() without a   *)
(* timeout.                                                                 *)
C29_isolation ==
    /\ [][bench.ran' # bench.ran
          => bench.ran' = Append(bench.ran, Len(bench.ran) + 1)]_vars
    /\ [](bench.phase = "done" => bench.stored = bench.results)
    /\ <>(Len(bench.ran) = Len(BenchTests(prog)))

(* C28 (per-stream counts in the parallel comparison): the count that       *)
(* _timed_stream reports for a stream is the number of messages that stream *)
(* itself received.  Both streams add to the one self.message_count, which  *)
(* both reports print.                                                      *)
C28_per_stream_counts ==
    prog = "comparison"
    => \A s \in Streams :
          bench.reported[s] # <<>> => bench.reported[s][1] = bench.own[s]

(* C30 (MEXC endpoint fallback order): test_mexc_ultra_v2 probes the        *)
(* endpoints in list order, each at most once; the endpoint it selects has  *)
(* delivered MEXC_PROBE_VALID valid messages during its probe, every        *)
(* endpoint before it has delivered fewer, and no endpoint after it is      *)
(* probed; the full test runs at most once, on the selected endpoint only;  *)
(* and when no endpoint is selected, every endpoint has been probed, the    *)
(* full test has not run and the function returns None.                     *)
C30_fallback_order ==
    prog = "mexc"
    => LET selected == bench.successful_endpoint
       IN /\ \A k \in 1..Len(bench.probed) : bench.probed[k] = k
          /\ selected # 0
             => /\ bench.valid[selected] >= MEXC_PROBE_VALID
                /\ \A k \in 1..(selected - 1) : bench.valid[k] < MEXC_PROBE_VALID
                /\ Len(bench.probed) = selected
          /\ bench.phase = "full" => selected # 0
          /\ Len(bench.full_on) <= 1
          /\ \A k \in 1..Len(bench.full_on) :
                selected # 0 /\ bench.full_on[k] = selected
          /\ (bench.phase = "done" /\ selected = 0)
             => /\ bench.returned = "None"
                /\ bench.full_on = <<>>
                /\ Len(bench.probed) = Len(Endpoints)

\* the first endpoint delivered two valid messages and timed out, the second
\* was selected, and the full test ran there
C30_witness ==
    /\ prog = "mexc"
    /\ bench.phase = "done"
    /\ bench.successful_endpoint = 2
    /\ bench.valid[1] = 2
    /\ bench.full_on = <<2>>
    /\ bench.returned = "result"

=============================================================================
